---- MODULE Spec2Model ----
(***************************************************************************)
(* Model of the two quiz applications of the repository.                   *)
(*                                                                         *)
(*   src/app.py            the session-driven quiz flow (Flask)            *)
(*   src/Docker V1/app.py  the quiz import / validate / list API (FastAPI) *)
(*                                                                         *)
(* Python values are modelled as follows.  A str is a sequence of          *)
(* one-character strings, except where only equality of two texts is ever  *)
(* used (question bank texts, option keys), where it is a TLA+ string.     *)
(* A dict is a sequence of <<key, value>> pairs in insertion order when    *)
(* the code iterates over it, and a function on its keys otherwise.  None  *)
(* is the value None below.                                                *)
(***************************************************************************)
EXTENDS Integers, Sequences, FiniteSets, TLC

VARIABLES
    session,    \* src/app.py: the Flask session, a dict (function on its keys)
    indices,    \* src/app.py: start_test's local `indices` of the last sample
    request,    \* src/app.py: the request handled last (route, form option)
    response,   \* src/app.py: the response returned to that request
    db,         \* src/Docker V1/app.py: the rows of table quizzes, in insertion order
    clock,      \* src/Docker V1/app.py: datetime.utcnow(), as a logical clock
    apiRequest, \* src/Docker V1/app.py: the API request in flight or handled last
    apiResponse,\* src/Docker V1/app.py: the response to it
    items       \* src/Docker V1/app.py: the handler's local `items` of that request

quizVars == <<session, indices, request, response>>

apiVars == <<db, clock, apiRequest, apiResponse, items>>

vars ==
    <<session, indices, request, response, db, clock, apiRequest, apiResponse, items>>

\* No API request yet.
NoRequest == [route |-> "none"]

\* No API response yet: the request is in flight.
NoResponse == [status |-> 0]

(***************************************************************************)
(* src/app.py : the quiz-attempt flow                                      *)
(***************************************************************************)

\* Python's None (request.form.get('option') without the field; the initial
\* value of correct_option).  No option key of the bank is this value.
None == "None"

\* random.sample(range(len(questions)), 5): the sample size.
SampleSize == 5

\* questions.json["SAPBasisQuestions"], as load_questions returns it.  The
\* options dict is kept in insertion order.  The bank holds a question whose
\* answer is its first option (Q0), questions whose answer is a later option
\* (Q1, Q4), one whose answer text is no option (Q2), and one with two options
\* of the answer's text (Q3).
Bank ==
    << [question |-> "Q0", options |-> << <<"a", "x">>, <<"b", "y">> >>, answer |-> "x"],
       [question |-> "Q1", options |-> << <<"a", "x">>, <<"b", "y">> >>, answer |-> "y"],
       [question |-> "Q2", options |-> << <<"a", "x">>, <<"b", "y">> >>, answer |-> "z"],
       [question |-> "Q3", options |-> << <<"a", "y">>, <<"b", "y">> >>, answer |-> "y"],
       [question |-> "Q4", options |-> << <<"b", "x">>, <<"a", "y">> >>, answer |-> "y"] >>

load_questions == Bank

\* The values request.form.get('option') takes: an option key, or None when
\* the form has no 'option' field.
FormOptions == {"a", "b", None}

\* session.get(key, default)
SessionGet(s, key, default) == IF key \in DOMAIN s THEN s[key] ELSE default

Redirect(endpoint) == [kind |-> "redirect", to |-> endpoint]

\* The loop of submit: the first key, in the dict's order, whose value is the
\* question's answer; None when there is none.
CorrectOption(q) ==
    LET hits == {i \in 1..Len(q.options) : q.options[i][2] = q.answer}
    IN IF hits = {} THEN None
       ELSE q.options[CHOOSE i \in hits : \A j \in hits : i <= j][1]

\* random.sample(range(n), k) with k drawn with replacement (random.choices).
RandomSampleWithReplacement(n, k) == [1..k -> 0..(n - 1)]

\* random.sample(range(n), k): the k-long sequences of pairwise distinct
\* elements of 0..n-1 (empty when k > n, where the call raises ValueError).
RandomSample(n, k) ==
    {s \in [1..k -> 0..(n - 1)] : \A i, j \in 1..k : i # j => s[i] # s[j]}

\* What start_test computes, for each value random.sample can return: its
\* local `indices`, and the session it leaves.  It writes the four keys of the
\* attempt state, the only keys the application ever writes.
StartTestOutcomes ==
    LET questions == load_questions
    IN {[indices |-> idx,
         session |-> [questions |-> [i \in 1..SampleSize |-> questions[idx[i] + 1]],
                      current_question |-> 0,
                      score |-> 0,
                      answers |-> <<>>]] :
        idx \in RandomSample(Len(questions), SampleSize)}

\* random.sample raises ValueError, before the session is touched, when the
\* bank holds fewer than SampleSize questions: there is no outcome then.
StartTest ==
    \E o \in StartTestOutcomes :
        /\ indices' = o.indices
        /\ session' = o.session
        /\ request' = [route |-> "start_test", option |-> None]
        /\ response' = Redirect("test")

Test ==
    LET current_question == SessionGet(session, "current_question", 0)
        questions == SessionGet(session, "questions", <<>>)
    IN /\ response' =
            IF current_question < Len(questions)
            THEN [kind |-> "render", template |-> "test.html",
                  question |-> questions[current_question + 1],
                  current_question |-> current_question + 1]
            ELSE Redirect("result")
       /\ request' = [route |-> "test", option |-> None]
       /\ UNCHANGED <<session, indices>>

\* SubmitAnswer without line 53, session['current_question'] += 1.
SubmitAnswerNoAdvance(s, selected_option) ==
    LET current_question == s.current_question
        q == s.questions[current_question + 1]
        correct_option == CorrectOption(q)
    IN IF selected_option = correct_option
       THEN [s EXCEPT !.score = @ + 1,
                      !.answers = Append(@, [question |-> q, correct |-> TRUE,
                                             selected_option |-> selected_option])]
       ELSE [s EXCEPT !.answers = Append(@, [question |-> q, correct |-> FALSE,
                                             selected_option |-> selected_option])]

\* The body of submit's `if current_question < len(questions)`.
SubmitAnswer(s, selected_option) ==
    LET current_question == s.current_question
        q == s.questions[current_question + 1]
        correct_option == CorrectOption(q)
    IN IF selected_option = correct_option
       THEN [s EXCEPT !.score = @ + 1,
                      !.answers = Append(@, [question |-> q, correct |-> TRUE,
                                             selected_option |-> selected_option]),
                      !.current_question = @ + 1]
       ELSE [s EXCEPT !.answers = Append(@, [question |-> q, correct |-> FALSE,
                                             selected_option |-> selected_option]),
                      !.current_question = @ + 1]

\* Submit with line 53 dedented out of the `if`: the cursor of a started
\* attempt advances on every submit.
SubmitAdvanceAlways ==
    \E selected_option \in FormOptions :
        LET current_question == SessionGet(session, "current_question", 0)
            questions == SessionGet(session, "questions", <<>>)
        IN /\ "current_question" \in DOMAIN session
           /\ session' = IF current_question < Len(questions)
                         THEN SubmitAnswer(session, selected_option)
                         ELSE [session EXCEPT !.current_question = @ + 1]
           /\ request' = [route |-> "submit", option |-> selected_option]
           /\ response' = Redirect("test")
           /\ UNCHANGED indices

Submit ==
    \E selected_option \in FormOptions :
        LET current_question == SessionGet(session, "current_question", 0)
            questions == SessionGet(session, "questions", <<>>)
        IN /\ session' = IF current_question < Len(questions)
                         THEN SubmitAnswer(session, selected_option)
                         ELSE session
           /\ request' = [route |-> "submit", option |-> selected_option]
           /\ response' = Redirect("test")
           /\ UNCHANGED indices

\* Result without the filter of line 60: every logged answer is listed.
ResultUnfiltered ==
    LET score == SessionGet(session, "score", 0)
        answers == SessionGet(session, "answers", <<>>)
    IN /\ response' = [kind |-> "render", template |-> "result.html",
                       score |-> score, incorrect_answers |-> answers]
       /\ request' = [route |-> "result", option |-> None]
       /\ UNCHANGED <<session, indices>>

\* Result that discards the attempt state after reading it (session.clear()).
ResultDiscard ==
    LET score == SessionGet(session, "score", 0)
        answers == SessionGet(session, "answers", <<>>)
        incorrect_answers == SelectSeq(answers, LAMBDA answer : ~answer.correct)
    IN /\ response' = [kind |-> "render", template |-> "result.html",
                       score |-> score, incorrect_answers |-> incorrect_answers]
       /\ request' = [route |-> "result", option |-> None]
       /\ session' = <<>>
       /\ UNCHANGED indices

Result ==
    LET score == SessionGet(session, "score", 0)
        answers == SessionGet(session, "answers", <<>>)
        incorrect_answers == SelectSeq(answers, LAMBDA answer : ~answer.correct)
    IN /\ response' = [kind |-> "render", template |-> "result.html",
                       score |-> score, incorrect_answers |-> incorrect_answers]
       /\ request' = [route |-> "result", option |-> None]
       /\ UNCHANGED <<session, indices>>

QuizInit ==
    /\ session = <<>>
    /\ indices = <<>>
    /\ request = [route |-> "none", option |-> None]
    /\ response = [kind |-> "none"]
    /\ db = <<>>
    /\ clock = 0
    /\ apiRequest = NoRequest
    /\ apiResponse = NoResponse
    /\ items = <<>>

QuizNext ==
    \/ StartTest /\ UNCHANGED apiVars
    \/ Test /\ UNCHANGED apiVars
    \/ Submit /\ UNCHANGED apiVars
    \/ Result /\ UNCHANGED apiVars

SpecQuiz == QuizInit /\ [][QuizNext]_vars

(***************************************************************************)
(* src/Docker V1/app.py : JSON values and Python helpers                   *)
(***************************************************************************)

\* A JSON value / Python object, tagged with its type.  A float carries ten
\* times its value (one decimal).
JNone == [t |-> "none"]
JStr(s) == [t |-> "str", v |-> s]
JInt(n) == [t |-> "int", v |-> n]
JFloat(n10) == [t |-> "float", v |-> n10]
JList(xs) == [t |-> "list", v |-> xs]

\* bool(x)
Truthy(x) ==
    CASE x.t = "none" -> FALSE
      [] x.t = "str" -> x.v # <<>>
      [] x.t = "int" -> x.v # 0
      [] x.t = "float" -> x.v # 0
      [] x.t = "list" -> x.v # <<>>
      [] OTHER -> TRUE

\* x or y
PyOr(x, y) == IF Truthy(x) THEN x ELSE y

RECURSIVE LStrip(_)
LStrip(s) == IF s # <<>> /\ Head(s) = " " THEN LStrip(Tail(s)) ELSE s

RECURSIVE RStrip(_)
RStrip(s) ==
    IF s # <<>> /\ s[Len(s)] = " " THEN RStrip(SubSeq(s, 1, Len(s) - 1)) ELSE s

\* str.strip()
Strip(s) == RStrip(LStrip(s))

DigitChars == <<"0", "1", "2", "3", "4", "5", "6", "7", "8", "9">>

IsDigit(c) == \E i \in 1..10 : DigitChars[i] = c

DigitValue(c) == (CHOOSE i \in 1..10 : DigitChars[i] = c) - 1

RECURSIVE NatToStr(_)
NatToStr(n) ==
    IF n < 10 THEN <<DigitChars[n + 1]>>
    ELSE NatToStr(n \div 10) \o <<DigitChars[(n % 10) + 1]>>

\* str(x) of a str, an int or a float
PyStr(x) ==
    CASE x.t = "str" -> x.v
      [] x.t = "int" ->
            IF x.v < 0 THEN <<"-">> \o NatToStr(-x.v) ELSE NatToStr(x.v)
      [] x.t = "float" ->
            LET m == IF x.v < 0 THEN -x.v ELSE x.v
            IN (IF x.v < 0 THEN <<"-">> ELSE <<>>)
               \o NatToStr(m \div 10) \o <<".">> \o NatToStr(m % 10)
      [] OTHER -> <<"?">>

RECURSIVE DigitsValue(_)
DigitsValue(ds) ==
    IF ds = <<>> THEN 0
    ELSE 10 * DigitsValue(SubSeq(ds, 1, Len(ds) - 1)) + DigitValue(ds[Len(ds)])

\* int(s) of a str: surrounding whitespace, an optional sign, digits.
ParseInt(s) ==
    LET u == Strip(s)
        signed == u # <<>> /\ Head(u) \in {"-", "+"}
        body == IF signed THEN Tail(u) ELSE u
    IN IF body # <<>> /\ \A i \in 1..Len(body) : IsDigit(body[i])
       THEN [ok |-> TRUE,
             v |-> IF signed /\ Head(u) = "-" THEN -DigitsValue(body)
                   ELSE DigitsValue(body)]
       ELSE [ok |-> FALSE, v |-> 0]

\* int(x): ok is FALSE where Python raises (ValueError, TypeError).
IntCall(x) ==
    CASE x.t = "int" -> [ok |-> TRUE, v |-> x.v]
      [] x.t = "float" ->
            [ok |-> TRUE,
             v |-> IF x.v >= 0 THEN x.v \div 10 ELSE -((-x.v) \div 10)]
      [] x.t = "str" -> ParseInt(x.v)
      [] OTHER -> [ok |-> FALSE, v |-> 0]

(***************************************************************************)
(* src/Docker V1/app.py : normalize_and_validate                           *)
(***************************************************************************)

\* raise HTTPException(status, detail).  A detail f"Q{i}: text" is kept as
\* its parts, the position i and the text; q is 0 when the detail names no
\* question.
HTTPException(status, i, text) ==
    [kind |-> "http", status |-> status, detail |-> [q |-> i, text |-> text]]

\* An exception that is no HTTPException (AttributeError, IndexError): the
\* framework answers 500 Internal Server Error.
Unhandled == [kind |-> "crash"]

\* Lines 97-100 without the check of line 99.
AnswerRangeUnchecked(v) ==
    LET ans_idx == IF 1 <= v /\ v <= 4 THEN v - 1 ELSE v
    IN [ok |-> TRUE, v |-> ans_idx, text |-> ""]

\* Lines 97-100: the answer index, from the integer read.
AnswerRange(v) ==
    LET ans_idx == IF 1 <= v /\ v <= 4 THEN v - 1 ELSE v
    IN IF ~(0 <= ans_idx /\ ans_idx < 4)
       THEN [ok |-> FALSE, v |-> 0, text |-> "answer (a) must be 1-4 (or 0-3)"]
       ELSE [ok |-> TRUE, v |-> ans_idx, text |-> ""]

\* Lines 87-100: the answer index of a question, from its "a".
AnswerIndex(a) ==
    IF a.t = "none" \/ (a.t = "str" /\ a.v = <<>>)
    THEN [ok |-> FALSE, v |-> 0, text |-> "missing correct answer (a)"]
    ELSE LET first == IntCall(a)
             second == IntCall(JStr(Strip(PyStr(a))))
             parsed == IF first.ok THEN first ELSE second
         IN IF ~parsed.ok
            THEN [ok |-> FALSE, v |-> 0, text |-> "invalid answer index"]
            ELSE AnswerRange(parsed.v)

\* "" if x is None else str(x)
OptionStr(x) == IF x.t = "none" THEN <<>> ELSE PyStr(x)

\* Lines 78-82: the options of a question, from its "options" list or from
\* its keys "1".."4".
OptionsOf(it) ==
    IF it.options.t = "list"
    THEN [k \in 1..Len(it.options.v) |-> OptionStr(it.options.v[k])]
    ELSE [k \in 1..4 |-> OptionStr(it.keys[k])]

\* The body of the loop (lines 73-101) for the i-th entry, counted from 1.
ValidateItem(i, it) ==
    IF it.t # "dict" THEN HTTPException(400, i, "not an object")
    ELSE LET text == PyOr(PyOr(it.q, it.question), JStr(<<>>))
         IN IF text.t # "str" THEN Unhandled
            ELSE LET q == Strip(text.v)
                     options == OptionsOf(it)
                     ans == AnswerIndex(it.a)
                 IN IF q = <<>>
                    THEN HTTPException(400, i, "missing question text")
                    ELSE IF Len(options) # 4
                    THEN HTTPException(400, i, "must provide exactly 4 options")
                    ELSE IF \E k \in 1..4 :
                               options[k] = <<>> \/ Strip(options[k]) = <<>>
                    THEN HTTPException(400, i, "options cannot be empty")
                    ELSE IF ~ans.ok
                    THEN HTTPException(400, i, ans.text)
                    ELSE [kind |-> "ok",
                          item |-> [q |-> q, options |-> options, correct |-> ans.v]]

\* Lines 103-106: the test name of the document.
TestNameOf(root) ==
    IF root.t # "dict" THEN [kind |-> "ok", v |-> JStr(<<>>)]
    ELSE LET direct == PyOr(root.TestName, root.testName)
         IN IF Truthy(direct) THEN [kind |-> "ok", v |-> direct]
            ELSE IF Truthy(root.meta) /\ root.meta.t # "dict" THEN Unhandled
            ELSE LET nested == IF Truthy(root.meta) THEN root.meta.testName
                               ELSE JNone
                 IN [kind |-> "ok", v |-> PyOr(nested, JStr(<<>>))]

\* The question array of a document (line 68).
ArrayOf(root) ==
    IF root.t = "list" THEN root
    ELSE IF root.t = "dict" THEN root.questions
    ELSE JNone

normalize_and_validate(root) ==
    LET arr == ArrayOf(root)
    IN IF ~Truthy(arr) \/ arr.t # "list"
       THEN HTTPException(400, 0, "Invalid JSON: must be an array or {questions: [...]}")
       ELSE LET checked == [i \in 1..Len(arr.v) |-> ValidateItem(i, arr.v[i])]
                failed == {i \in 1..Len(arr.v) : checked[i].kind # "ok"}
                name == TestNameOf(root)
            IN IF failed # {}
               THEN checked[CHOOSE i \in failed : \A j \in failed : i <= j]
               ELSE IF name.kind # "ok" THEN name
               ELSE [kind |-> "ok",
                     items |-> [i \in 1..Len(arr.v) |-> checked[i].item],
                     test_name |-> name.v]

\* The response the framework sends for an exception a handler raises.
ErrorResponse(e) ==
    IF e.kind = "http" THEN [status |-> e.status, detail |-> e.detail]
    ELSE [status |-> 500, detail |-> [q |-> 0, text |-> "Internal Server Error"]]

ApiValidate ==
    /\ apiRequest.route = "validate"
    /\ apiResponse = NoResponse
    /\ LET r == normalize_and_validate(apiRequest.json)
       IN IF r.kind = "ok"
          THEN /\ items' = r.items
               /\ apiResponse' =
                    [status |-> 200,
                     body |-> [ok |-> TRUE,
                               question_count |-> Len(r.items),
                               detected_test_name |-> PyOr(r.test_name, JNone)]]
          ELSE /\ items' = <<>>
               /\ apiResponse' = ErrorResponse(r)
    /\ UNCHANGED <<db, clock, apiRequest>>

(***************************************************************************)
(* Input documents of the validation                                       *)
(***************************************************************************)

\* The longest question array of an input document.
MaxQuestions == 2

OptionO == JStr(<<"o">>)

NoKeys == <<JNone, JNone, JNone, JNone>>

\* A well-formed question entry: text in "q", four options in "options",
\* the answer 1.
GoodItem ==
    [t |-> "dict", q |-> JStr(<<"Q">>), question |-> JNone,
     options |-> JList(<<OptionO, OptionO, OptionO, OptionO>>),
     keys |-> NoKeys, a |-> JInt(1)]

\* The values of "a" tried: absent, "", the integers around 0..4, numeric
\* and non-numeric strings, a float.
AnswerValues ==
    {JNone, JStr(<<>>), JInt(-1), JInt(0), JInt(1), JInt(4), JInt(5),
     JStr(<<"0">>), JStr(<<"2">>), JStr(<<" ", "3", " ">>), JStr(<<"x">>),
     JFloat(25)}

\* The option forms tried: lists of 3, 4 and 5 entries, a None, blank or
\* numeric entry, and the keys "1".."4" with and without a missing key.
OptionForms ==
    {[options |-> JList(<<OptionO, OptionO, OptionO>>), keys |-> NoKeys],
     [options |-> JList(<<OptionO, OptionO, OptionO, OptionO, OptionO>>), keys |-> NoKeys],
     [options |-> JList(<<OptionO, JNone, OptionO, OptionO>>), keys |-> NoKeys],
     [options |-> JList(<<OptionO, OptionO, JStr(<<" ">>), OptionO>>), keys |-> NoKeys],
     [options |-> JList(<<JInt(0), OptionO, OptionO, JInt(12)>>), keys |-> NoKeys],
     [options |-> JNone, keys |-> <<OptionO, OptionO, OptionO, OptionO>>],
     [options |-> JNone, keys |-> <<OptionO, OptionO, OptionO, JNone>>]}

\* The question texts tried, as the pair of "q" and "question".
TextForms ==
    {[q |-> JNone, question |-> JNone],
     [q |-> JStr(<<" ">>), question |-> JNone],
     [q |-> JStr(<<>>), question |-> JStr(<<" ", "R">>)],
     [q |-> JInt(0), question |-> JNone],
     [q |-> JInt(5), question |-> JNone]}

ItemPool ==
    {[GoodItem EXCEPT !.a = x] : x \in AnswerValues}
    \cup {[GoodItem EXCEPT !.options = f.options, !.keys = f.keys] : f \in OptionForms}
    \cup {[GoodItem EXCEPT !.q = f.q, !.question = f.question] : f \in TextForms}
    \cup {[GoodItem EXCEPT !.q = JInt(5),
                           !.options = JList(<<OptionO, OptionO, OptionO>>)]}
    \cup {JStr(<<"x">>)}

\* A document {"questions": arr, ...}.
DictRoot(arr, name) ==
    [t |-> "dict", questions |-> arr, TestName |-> JNone, testName |-> name,
     meta |-> JNone]

QuestionArrays ==
    UNION {[1..n -> ItemPool] : n \in 0..MaxQuestions}

Docs ==
    {JList(xs) : xs \in QuestionArrays}
    \cup {DictRoot(JList(xs), JNone) : xs \in QuestionArrays}
    \cup {DictRoot(JNone, JNone), DictRoot(JStr(<<"x">>), JNone),
          DictRoot(JList(<<GoodItem>>), JStr(<<"T">>)),
          [DictRoot(JList(<<GoodItem>>), JNone) EXCEPT !.meta = JStr(<<"m">>)],
          [DictRoot(JList(<<GoodItem>>), JNone) EXCEPT
              !.meta = [t |-> "dict", testName |-> JStr(<<"T">>)]]}

ValidateInit ==
    /\ apiRequest \in {[route |-> "validate", json |-> d] : d \in Docs}
    /\ apiResponse = NoResponse
    /\ items = <<>>
    /\ db = <<>>
    /\ clock = 0
    /\ session = <<>>
    /\ indices = <<>>
    /\ request = [route |-> "none", option |-> None]
    /\ response = [kind |-> "none"]

ValidateNext == ApiValidate /\ UNCHANGED quizVars

SpecValidate == ValidateInit /\ [][ValidateNext]_vars

(***************************************************************************)
(* Inputs of api_import and list_quizzes                                   *)
(***************************************************************************)

\* ADMIN_TOKEN, the configured admin secret.
ADMIN_TOKEN == <<"t", "k">>

\* The prefix "Bearer ".
Bearer == <<"B", "e", "a", "r", "e", "r", " ">>

\* The Authorization headers tried: absent, empty, the exact header, a wrong
\* token, the token without the scheme, the scheme in lower case, and the
\* exact header followed by more text.
Headers ==
    {JNone, JStr(<<>>),
     JStr(Bearer \o ADMIN_TOKEN),
     JStr(Bearer \o <<"t">>),
     JStr(ADMIN_TOKEN),
     JStr(<<"b", "e", "a", "r", "e", "r", " ">> \o ADMIN_TOKEN),
     JStr(Bearer \o ADMIN_TOKEN \o <<" ", "x">>)}

\* The import payloads tried: each document, with and without a skill and a
\* difficulty of its own.
ImportPayloads ==
    {[json |-> JList(<<GoodItem>>),
      skill |-> JNone, difficulty |-> JNone, yoe |-> JNone],
     [json |-> JList(<<GoodItem>>),
      skill |-> JStr(<<" ", "a", "_", " ">>), difficulty |-> JNone, yoe |-> JNone],
     [json |-> DictRoot(JList(<<GoodItem, [GoodItem EXCEPT !.a = JStr(<<"0">>)]>>),
                        JStr(<<"A", "b", " ", "c">>)),
      skill |-> JNone, difficulty |-> JStr(<<"E">>), yoe |-> JNone],
     [json |-> JList(<<GoodItem,
                       [GoodItem EXCEPT !.options = JList(<<OptionO, OptionO, OptionO>>)]>>),
      skill |-> JNone, difficulty |-> JNone, yoe |-> JNone],
     [json |-> DictRoot(JList(<<GoodItem>>), JStr(<<" ">>)),
      skill |-> JNone, difficulty |-> JNone, yoe |-> JNone],
     [json |-> DictRoot(JList(<<GoodItem>>), JStr(<<" ">>)),
      skill |-> JStr(<<"a", "b">>), difficulty |-> JStr(<<"E">>), yoe |-> JNone]}

\* The skill filters of list_quizzes tried: none, a stored skill, and a
\* stored skill in another case.
ListSkills == {JNone, JStr(<<"a", "_">>), JStr(<<"A", "_">>)}

ListDifficulties == {JNone, JStr(<<"E">>)}

\* The search terms tried: none, letters in another case than stored, the
\* LIKE wildcards alone and after a letter, and a backslash.
SearchTerms ==
    {JNone, JStr(<<"a", "B">>), JStr(<<"_">>), JStr(<<"%">>), JStr(<<"a", "_">>),
     JStr(<<"\\">>)}

(***************************************************************************)
(* src/Docker V1/app.py : api_import                                       *)
(***************************************************************************)

\* s.startswith(prefix)
StartsWith(s, prefix) ==
    Len(s) >= Len(prefix) /\ SubSeq(s, 1, Len(prefix)) = prefix

\* s.split(" ", 1)[1], for an s that holds a space: what follows the first.
AfterFirstSpace(s) ==
    LET i == CHOOSE k \in 1..Len(s) : s[k] = " " /\ \A j \in 1..(k - 1) : s[j] # " "
    IN SubSeq(s, i + 1, Len(s))

\* s.split()[0]: the first whitespace-separated word; <<>> stands for the
\* IndexError of a blank s.
FirstWord(s) ==
    LET u == LStrip(s)
        stops == {k \in 1..Len(u) : u[k] = " "}
    IN IF stops = {} THEN u
       ELSE SubSeq(u, 1, (CHOOSE k \in stops : \A j \in stops : k <= j) - 1)

\* require_admin with authorization.split()[1]: the second word of the
\* header is compared, whatever follows it.
RequireAdminSecondWord(authorization) ==
    IF ~Truthy(authorization) \/ ~StartsWith(authorization.v, Bearer)
    THEN HTTPException(401, 0, "Missing or invalid Authorization header")
    ELSE IF FirstWord(AfterFirstSpace(authorization.v)) # ADMIN_TOKEN
    THEN HTTPException(403, 0, "Forbidden")
    ELSE [kind |-> "ok"]

RequireAdmin(authorization) ==
    IF ~Truthy(authorization) \/ ~StartsWith(authorization.v, Bearer)
    THEN HTTPException(401, 0, "Missing or invalid Authorization header")
    ELSE IF AfterFirstSpace(authorization.v) # ADMIN_TOKEN
    THEN HTTPException(403, 0, "Forbidden")
    ELSE [kind |-> "ok"]

General == <<"G", "e", "n", "e", "r", "a", "l">>

Custom == <<"C", "u", "s", "t", "o", "m", " ">>

Mixed == <<"M", "i", "x", "e", "d">>

NotApplicable == <<"N", "/", "A">>

\* Lines 143-146: the metadata of the new row; Unhandled where test_name is
\* no str (AttributeError) or is blank (IndexError).
ImportMeta(payload, test_name) ==
    LET given == Strip(PyOr(payload.skill, JStr(<<>>)).v)
        named == Truthy(test_name)
        skill == IF given # <<>> THEN given
                 ELSE IF named THEN FirstWord(test_name.v)
                 ELSE General
        difficulty == Strip(PyOr(payload.difficulty, JStr(Mixed)).v)
        yoe == LET y == Strip(PyOr(payload.yoe, JStr(<<>>)).v)
               IN IF y # <<>> THEN y ELSE NotApplicable
    IN IF given = <<>> /\ named
          /\ (test_name.t # "str" \/ Strip(test_name.v) = <<>>)
       THEN Unhandled
       ELSE [kind |-> "ok", skill |-> skill, difficulty |-> difficulty, yoe |-> yoe,
             test_name |-> IF named THEN test_name.v ELSE Custom \o skill]

\* The most rows the table holds.
MaxQuizzes == 2

\* What api_import computes from each request before it reads the table:
\* the outcome of require_admin and that of normalize_and_validate.
ImportChecks ==
    {[payload |-> payload, authorization |-> authorization,
      admin |-> RequireAdmin(authorization),
      r |-> normalize_and_validate(payload.json)] :
        payload \in ImportPayloads, authorization \in Headers}

\* api_import for one request: the admin check, the validation, the row.
\* uuid4 is taken to be fresh: the id is the number of the import.
ApiImport ==
    \E c \in ImportChecks :
        LET meta == ImportMeta(c.payload, c.r.test_name)
            now == clock + 1
            row == [id |-> now,
                    test_name |-> meta.test_name,
                    skill |-> meta.skill,
                    difficulty |-> meta.difficulty,
                    yoe |-> meta.yoe,
                    question_count |-> Len(c.r.items),
                    json |-> c.payload.json,
                    status |-> "published",
                    created_at |-> now,
                    updated_at |-> now]
        IN /\ apiRequest' = [route |-> "import", payload |-> c.payload,
                             authorization |-> c.authorization]
           /\ IF c.admin.kind # "ok"
              THEN /\ apiResponse' = ErrorResponse(c.admin)
                   /\ UNCHANGED <<db, clock, items>>
              ELSE IF c.r.kind # "ok"
              THEN /\ apiResponse' = ErrorResponse(c.r)
                   /\ UNCHANGED <<db, clock, items>>
              ELSE IF meta.kind # "ok"
              THEN /\ apiResponse' = ErrorResponse(meta)
                   /\ items' = c.r.items
                   /\ UNCHANGED <<db, clock>>
              ELSE /\ Len(db) < MaxQuizzes
                   /\ items' = c.r.items
                   /\ clock' = now
                   /\ db' = Append(db, row)
                   /\ apiResponse' =
                        [status |-> 200,
                         body |-> [ok |-> TRUE, id |-> row.id,
                                   url |-> <<"PUBLIC_BASE_URL", "/quizzes/", row.id, ".json">>,
                                   meta |-> [test_name |-> row.test_name,
                                             skill |-> row.skill,
                                             difficulty |-> row.difficulty,
                                             yoe |-> row.yoe,
                                             count |-> row.question_count]]]

(***************************************************************************)
(* src/Docker V1/app.py : list_quizzes                                     *)
(***************************************************************************)

UpperChars == <<"A", "B", "C", "E", "G", "M", "N">>

LowerChars == <<"a", "b", "c", "e", "g", "m", "n">>

\* The lower-case form of a character, as ILIKE folds it.
LowerChar(c) ==
    IF \E i \in 1..Len(UpperChars) : UpperChars[i] = c
    THEN LowerChars[CHOOSE i \in 1..Len(UpperChars) : UpperChars[i] = c]
    ELSE c

Lower(s) == [i \in 1..Len(s) |-> LowerChar(s[i])]

\* s LIKE pattern: % matches any run of characters, _ any one character,
\* and a backslash makes the next character of the pattern literal.
RECURSIVE Like(_, _)
Like(s, pattern) ==
    IF pattern = <<>> THEN s = <<>>
    ELSE IF Head(pattern) = "%"
    THEN Like(s, Tail(pattern)) \/ (s # <<>> /\ Like(Tail(s), pattern))
    ELSE IF Head(pattern) = "\\" /\ Len(pattern) >= 2
    THEN s # <<>> /\ Head(s) = pattern[2] /\ Like(Tail(s), Tail(Tail(pattern)))
    ELSE /\ s # <<>>
         /\ (Head(pattern) = "_" \/ Head(s) = Head(pattern))
         /\ Like(Tail(s), Tail(pattern))

\* s ILIKE pattern
ILike(s, pattern) == Like(Lower(s), Lower(pattern))

\* The collation of ORDER BY, as the rank of each character.
Collation ==
    <<" ", "%", "/", "A", "B", "C", "E", "G", "M", "N", "_",
      "a", "b", "c", "e", "g", "i", "l", "m", "n", "o", "r", "s", "t", "u", "x">>

CharRank(c) ==
    IF \E i \in 1..Len(Collation) : Collation[i] = c
    THEN CHOOSE i \in 1..Len(Collation) : Collation[i] = c
    ELSE 0

\* s < t in the collation.
RECURSIVE StrLess(_, _)
StrLess(s, t) ==
    IF t = <<>> THEN FALSE
    ELSE IF s = <<>> THEN TRUE
    ELSE IF Head(s) = Head(t) THEN StrLess(Tail(s), Tail(t))
    ELSE CharRank(Head(s)) < CharRank(Head(t))

\* ORDER BY skill ASC, created_at DESC: r comes before q.
RowBefore(r, q) ==
    \/ StrLess(r.skill, q.skill)
    \/ r.skill = q.skill /\ r.created_at > q.created_at

\* The rows of a set in the order of ORDER BY: the i-th is the row that
\* i - 1 rows come before.
Ordered(rows) ==
    [i \in 1..Cardinality(rows) |->
        CHOOSE r \in rows : Cardinality({q \in rows : RowBefore(q, r)}) = i - 1]

\* The WHERE clause of list_quizzes (lines 173-180).
Selected(r, skill, difficulty, search) ==
    /\ r.status = "published"
    /\ Truthy(skill) => r.skill = skill.v
    /\ Truthy(difficulty) => r.difficulty = difficulty.v
    /\ Truthy(search) =>
          LET q == <<"%">> \o search.v \o <<"%">>
          IN ILike(r.test_name, q) \/ ILike(r.skill, q)

\* The rows of the table, as a set.
Rows == {db[i] : i \in 1..Len(db)}

\* One entry of "items" (lines 189-194).
ListItem(r) ==
    [id |-> r.id, test_name |-> r.test_name, skill |-> r.skill,
     difficulty |-> r.difficulty, yoe |-> r.yoe, count |-> r.question_count,
     url |-> <<"PUBLIC_BASE_URL", "/quizzes/", r.id, ".json">>,
     created_at |-> r.created_at]

\* The summary query (lines 185-187): the published rows per skill.
SkillSummary ==
    LET published == {r \in Rows : r.status = "published"}
    IN Ordered({[skill |-> k, created_at |-> 0,
                 n |-> Cardinality({r \in published : r.skill = k})] :
                k \in {r.skill : r \in published}})

ListQuizzes ==
    \E skill \in ListSkills, difficulty \in ListDifficulties, search \in SearchTerms :
        \E selected \in {SelectSeq(db, LAMBDA r : Selected(r, skill, difficulty, search))},
           summary \in {SkillSummary} :
           LET rows == Ordered({selected[k] : k \in 1..Len(selected)})
           IN
           /\ apiRequest' = [route |-> "list", skill |-> skill,
                             difficulty |-> difficulty, search |-> search]
           /\ apiResponse' =
                [status |-> 200,
                 body |-> [skills |-> [i \in 1..Len(summary) |->
                                          [skill |-> summary[i].skill,
                                           count |-> summary[i].n]],
                           items |-> [i \in 1..Len(rows) |-> ListItem(rows[i])]]]
           /\ UNCHANGED <<db, clock, items>>

\* A row that is in the table before the application starts (create_all
\* keeps an existing table), with a status other than published.
DraftRow ==
    [id |-> 0, test_name |-> <<"a", "_", " ", "d">>, skill |-> <<"a", "_">>,
     difficulty |-> <<"E">>, yoe |-> NotApplicable, question_count |-> 1,
     json |-> JList(<<GoodItem>>), status |-> "draft",
     created_at |-> 0, updated_at |-> 0]

ApiInit ==
    /\ db \in {<<>>, <<DraftRow>>}
    /\ clock = 0
    /\ apiRequest = NoRequest
    /\ apiResponse = NoResponse
    /\ items = <<>>
    /\ session = <<>>
    /\ indices = <<>>
    /\ request = [route |-> "none", option |-> None]
    /\ response = [kind |-> "none"]

ApiNext ==
    \/ ApiImport /\ UNCHANGED quizVars
    \/ ListQuizzes /\ UNCHANGED quizVars

SpecApi == ApiInit /\ [][ApiNext]_vars

(***************************************************************************)
(* Properties of the validation (checked under SpecValidate)               *)
(***************************************************************************)

\* The validate request has been answered.
Validated == apiRequest.route = "validate" /\ apiResponse # NoResponse

\* C1: for every document the validation accepts, the number of entries it
\* returns (and the question_count reported) is the length of the input
\* question array, every correct-answer index is an integer in 0..3, and an
\* integer answer n is stored as n - 1 when given as 1..4 and as 0 when given
\* as 0.
C1_AcceptedCountAndRange ==
    (Validated /\ apiResponse.status = 200) =>
        LET arr == ArrayOf(apiRequest.json).v
        IN /\ Len(items) = Len(arr)
           /\ apiResponse.body.question_count = Len(arr)
           /\ Len(arr) > 0
           /\ \A i \in 1..Len(items) :
                /\ items[i].correct \in 0..3
                /\ arr[i].a.t = "int" =>
                     items[i].correct =
                        IF arr[i].a.v \in 1..4 THEN arr[i].a.v - 1 ELSE arr[i].a.v

\* C1 witness: an accepted document of two questions, one with the answer
\* given as 4 and one with the answer given as 0.
C1_Witness ==
    /\ Validated
    /\ apiResponse.status = 200
    /\ apiRequest.json.t = "dict"
    /\ Len(items) = 2
    /\ apiRequest.json.questions.v[1].a = JInt(4)
    /\ apiRequest.json.questions.v[2].a = JInt(0)
    /\ items[1].correct = 3
    /\ items[2].correct = 0

\* The question has fewer than four options, or an empty option.
FewOrEmptyOptions(it) ==
    /\ it.t = "dict"
    /\ LET raw == IF it.options.t = "list" THEN it.options.v ELSE it.keys
       IN \/ Len(raw) < 4
          \/ \E k \in 1..Len(raw) :
                \/ raw[k].t = "none"
                \/ raw[k].t = "str" /\ Strip(raw[k].v) = <<>>

\* The question, validated alone, is not accepted.
Defective(it) == normalize_and_validate(JList(<<it>>)).kind # "ok"

\* C2 as stated: a document with a question of fewer than four options, or
\* of an empty option, is rejected whole, with a message that names the
\* 1-based position of the first defective question of the array.
C2_Original ==
    LET arr == ArrayOf(apiRequest.json)
    IN (/\ Validated
        /\ arr.t = "list"
        /\ \E i \in 1..Len(arr.v) : FewOrEmptyOptions(arr.v[i])) =>
           LET bad == {i \in 1..Len(arr.v) : Defective(arr.v[i])}
           IN /\ apiResponse.status = 400
              /\ items = <<>>
              /\ apiResponse.detail.q = CHOOSE i \in bad : \A j \in bad : i <= j

(***************************************************************************)
(* Properties of the API (checked under SpecApi)                           *)
(***************************************************************************)

\* The Authorization header is exactly "Bearer " followed by the admin token.
ExactBearer(authorization) ==
    authorization.t = "str" /\ authorization.v = Bearer \o ADMIN_TOKEN

\* A step that handles an import request whose header is not the exact one
\* answers 401 or 403, whatever the document, and leaves the table as it was.
ImportRejectsOtherHeaders ==
    (apiRequest'.route = "import" /\ ~ExactBearer(apiRequest'.authorization)) =>
        /\ apiResponse'.status \in {401, 403}
        /\ db' = db

\* A step that changes the table handles an import request with the exact
\* header, and adds one row.
OnlyExactBearerPersists ==
    db' # db =>
        /\ apiRequest'.route = "import"
        /\ ExactBearer(apiRequest'.authorization)
        /\ Len(db') = Len(db) + 1
        /\ SubSeq(db', 1, Len(db)) = db

\* C3: api_import persists a quiz record only when the Authorization header
\* is exactly "Bearer " followed by the admin token; with no header or any
\* other header the request is answered 401 or 403, before the validation
\* (so also for an invalid document), and the stored records are unchanged.
C3_ImportNeedsExactBearer ==
    [][ImportRejectsOtherHeaders /\ OnlyExactBearerPersists]_vars

\* C3 witness: an import of an invalid document whose header carries the
\* token followed by more text was answered 403, with a row in the table.
C3_Witness ==
    /\ apiRequest.route = "import"
    /\ apiRequest.authorization = JStr(Bearer \o ADMIN_TOKEN \o <<" ", "x">>)
    /\ normalize_and_validate(apiRequest.payload.json).kind = "http"
    /\ apiResponse.status = 403
    /\ Len(db) = 2
    /\ db[2].status = "published"

\* t occurs in s as a substring, compared without regard to case.
ContainsIgnoreCase(s, t) ==
    \E i \in 1..(Len(s) - Len(t) + 1) :
        Lower(SubSeq(s, i, i + Len(t) - 1)) = Lower(t)

\* C7 as stated: with a skill filter, the listing returns only published
\* rows of exactly that skill; with a search term (and no other filter), it
\* returns exactly the published rows whose name or skill contains the term,
\* compared without regard to case.
C7_Original ==
    (apiRequest.route = "list" /\ apiResponse.status = 200) =>
        LET listed == {apiResponse.body.items[i].id :
                          i \in 1..Len(apiResponse.body.items)}
        IN /\ Truthy(apiRequest.skill) =>
                \A r \in Rows :
                    r.id \in listed =>
                        r.status = "published" /\ r.skill = apiRequest.skill.v
           /\ (/\ Truthy(apiRequest.search)
               /\ ~Truthy(apiRequest.skill)
               /\ ~Truthy(apiRequest.difficulty)) =>
                listed = {r.id : r \in
                            {r \in Rows :
                                /\ r.status = "published"
                                /\ \/ ContainsIgnoreCase(r.test_name, apiRequest.search.v)
                                   \/ ContainsIgnoreCase(r.skill, apiRequest.search.v)}}

(***************************************************************************)
(* Properties of the quiz-attempt flow (checked under SpecQuiz)            *)
(***************************************************************************)

\* The keys of the attempt state.
AttemptKeys == {"questions", "current_question", "score", "answers"}

\* start_test has run on this session (its `indices` have been drawn).
Started == indices # <<>>

Cursor == SessionGet(session, "current_question", 0)
Score == SessionGet(session, "score", 0)
Answers == SessionGet(session, "answers", <<>>)
Questions == SessionGet(session, "questions", <<>>)

\* The number of entries of an answer log that are marked correct.
NumCorrect(log) == Cardinality({k \in 1..Len(log) : log[k].correct})

\* C4: right after start_test the session holds 5 sampled questions, the
\* questions of 5 pairwise distinct indices of the bank, and the cursor, the
\* score and the answer log are 0, 0 and empty.
C4_StartTestSamplesDistinct ==
    request.route = "start_test" =>
        /\ AttemptKeys \subseteq DOMAIN session
        /\ Len(session.questions) = 5
        /\ Len(indices) = 5
        /\ \A i, j \in 1..5 : i # j => indices[i] # indices[j]
        /\ \A i \in 1..5 :
              /\ indices[i] \in 0..(Len(Bank) - 1)
              /\ session.questions[i] = Bank[indices[i] + 1]
        /\ session.current_question = 0
        /\ session.score = 0
        /\ session.answers = <<>>

\* C4 witness: start_test has just answered, with a sample that is not the
\* bank's own order.
C4_Witness ==
    /\ request.route = "start_test"
    /\ indices = [i \in 1..5 |-> 5 - i]
    /\ session.questions[1] = Bank[5]

\* C5: the score never exceeds the sampled question count, 5.
C5_ScoreAtMostCount == Score <= 5

\* C5 witness: all five questions answered and all five counted correct,
\* with a further submit after the last question.
C5_Witness ==
    /\ Started
    /\ Score = 5
    /\ Cursor = 5
    /\ request.route = "submit"
    /\ request.option # Answers[5].selected_option

\* C6 as stated: a rendered result view of a started attempt lists as many
\* incorrect answers as 5 minus the score it shows.
C6_Original ==
    (Started /\ request.route = "result") =>
        Len(response.incorrect_answers) = 5 - response.score

\* C6 amended: a rendered result view lists as many incorrect answers as the
\* number of answers submitted so far (the cursor) minus the score it shows;
\* that is 5 minus the score exactly when all five questions were answered.
C6_IncorrectIsAnsweredMinusScore ==
    request.route = "result" =>
        /\ response.template = "result.html"
        /\ Len(response.incorrect_answers) = Cursor - response.score
        /\ Started =>
              ((Len(response.incorrect_answers) = 5 - response.score) <=> Cursor = 5)

\* C6 witness: the result view rendered after five answers, some correct and
\* some not.
C6_Witness ==
    /\ request.route = "result"
    /\ Cursor = 5
    /\ response.score = 3
    /\ Len(response.incorrect_answers) = 2

\* C8 as stated: once the result view has been displayed, the attempt state
\* is no longer held in the session.
C8_Original ==
    request.route = "result" => AttemptKeys \cap DOMAIN session = {}

\* C8 amended: the attempt state is created by start_test and is only read by
\* result: from the first start_test on the session holds all four keys, and
\* right after the result view is displayed the session still holds the
\* score and the answer log that the view shows.
C8_ResultKeepsAttemptState ==
    Started =>
        /\ AttemptKeys \subseteq DOMAIN session
        /\ request.route = "result" =>
              /\ response.score = session.score
              /\ response.incorrect_answers =
                    SelectSeq(session.answers, LAMBDA answer : ~answer.correct)

\* C8 witness: the result view displayed for a finished attempt, whose five
\* questions and five logged answers are still in the session.
C8_Witness ==
    /\ Started
    /\ request.route = "result"
    /\ Len(session.answers) = 5
    /\ Len(session.questions) = 5
    /\ session.current_question = 5

\* The selected key is a key of the question's options whose value is the
\* question's answer text.
SelectedMapsToAnswer(q, selected_option) ==
    \E i \in 1..Len(q.options) :
        /\ q.options[i][1] = selected_option
        /\ q.options[i][2] = q.answer

\* C9 as stated: every submit below the end advances the cursor by one and
\* records the outcome as correct, adding one to the score, exactly when the
\* selected key maps to the answer text; so every logged outcome is correct
\* exactly in that case and the score counts those entries.
C9_Original ==
    Started =>
        /\ \A k \in 1..Len(Answers) :
              Answers[k].correct <=>
                  SelectedMapsToAnswer(Answers[k].question, Answers[k].selected_option)
        /\ Score = Cardinality({k \in 1..Len(Answers) :
                      SelectedMapsToAnswer(Answers[k].question,
                                           Answers[k].selected_option)})

\* A submit at the end of the attempt changes nothing of the attempt state.
SubmitAtEndIsNoOp ==
    (request'.route = "submit" /\ Cursor = Len(Questions)) => session' = session

\* C10: from start_test on, the answer log has as many entries as the cursor
\* says, the cursor is at most the number of sampled questions, and the
\* score is the number of log entries marked correct; and a submit when the
\* cursor equals the number of sampled questions leaves the attempt state
\* unchanged.
C10_LogCursorScoreAgree ==
    /\ [](Started =>
            /\ Len(Answers) = Cursor
            /\ Cursor <= Len(Questions)
            /\ Score = NumCorrect(Answers))
    /\ [][SubmitAtEndIsNoOp]_vars

\* C10 witness: a submit arrived after the last question was answered.
C10_Witness ==
    /\ Started
    /\ request.route = "submit"
    /\ Cursor = Len(Questions)
    /\ Len(Answers) = 5
    /\ request.option # Answers[5].selected_option
    /\ Score = 2

====
